---- MODULE Spec2Model ----
(***************************************************************************)
(* Model of zntb/mail_webcam_detection, src/main.py: the MotionDetector    *)
(* frame loop (warm-up gate, background priming, episode tracker,          *)
(* best-frame selection, image persistence) and the e-mail worker threads  *)
(* started by send_motion_alert.                                           *)
(*                                                                         *)
(* A camera frame is abstracted to what the vision library reports for it: *)
(* either background subtraction raises on it (ok = FALSE), or it yields a *)
(* list of contours, each with its vertex count, its area and the width    *)
(* and height of its bounding rectangle.  A frame's identity (its pixels)  *)
(* is the value of frame_count at which it was read.  Wall-clock time is   *)
(* an integer number of seconds.  An image path is the ordinal of the      *)
(* save_motion_image call that returned it (the code derives the name      *)
(* from a microsecond timestamp, so every call returns a new name).        *)
(* A KeyboardInterrupt is taken between two iterations of the loop.        *)
(***************************************************************************)
EXTENDS Integers, Sequences, FiniteSets, TLC

(***************************************************************************)
(* Program constants.                                                      *)
(***************************************************************************)
warmup_frames == 60
min_startup_delay == 5
min_contour_area == 800
min_large_box_area == 5000
\* stored by __init__ and read nowhere else in the program
motion_cooldown == 45

(***************************************************************************)
(* Bounds of the model.                                                    *)
(***************************************************************************)
\* frames the camera delivers beyond the warm-up count
ExtraFrames == 5
\* the clock stops advancing at this many seconds
MaxTime == 5

MaxFrames == warmup_frames + ExtraFrames

(***************************************************************************)
(* Inputs: the contours the camera frames may show.                        *)
(***************************************************************************)
Contour(p, a, ww, hh) == [pts |-> p, area |-> a, w |-> ww, h |-> hh]

\* two vertices: degenerate
cLine == Contour(2, 0, 90, 1)
\* area exactly min_contour_area: not above it
cNoise == Contour(4, 800, 40, 40)
\* kept, box 50x50 = 2500
cSmall == Contour(4, 2400, 50, 50)
\* kept, box 50x100 = 5000 exactly: not above min_large_box_area
cEdge == Contour(6, 4900, 50, 100)
\* kept, box 101x50 = 5050
cWide == Contour(5, 4000, 101, 50)
\* kept, box 100x100 = 10000
cLarge == Contour(8, 9000, 100, 100)

GoodFrame(cs) == [ok |-> TRUE, contours |-> cs]
BadFrame == [ok |-> FALSE, contours |-> <<>>]

Frames ==
    { GoodFrame(<<>>),
      GoodFrame(<<cLine, cNoise>>),
      GoodFrame(<<cEdge, cSmall>>),
      GoodFrame(<<cNoise, cWide>>),
      GoodFrame(<<cLarge>>),
      BadFrame }

VARIABLES
    pc,                \* main thread: "constructed", "running", "stopped", "exited"
    is_running,
    video_capture,     \* "none", "open", "released"
    email_enabled,     \* config.email_enabled: email_service is not None
    show_video,        \* config.show_video
    now,               \* time.time()
    frame_count,
    start_time,
    initialized,
    bg_frames,         \* frames the background subtractor has been applied to
    motion_active,
    motion_sequence,
    motion_start_time,
    last_motion_time,
    n_paths,           \* image file names generated so far
    files,             \* image paths present in images_dir
    email_lock,        \* 0: free, else the path of the worker holding it
    workers,           \* path -> state of the email_worker thread started for it
    ev,                \* history: what the last step of the main thread did
    quiet,             \* history: every frame read so far has a zero-region reading
    written            \* history: the paths whose image file was written

vars == << pc, is_running, video_capture, email_enabled, show_video, now,
           frame_count, start_time, initialized, bg_frames, motion_active,
           motion_sequence, motion_start_time, last_motion_time, n_paths,
           files, email_lock, workers, ev, quiet, written >>

mainVars == << pc, is_running, video_capture, email_enabled, show_video,
               frame_count, start_time, initialized, bg_frames, motion_active,
               motion_sequence, motion_start_time, last_motion_time, n_paths,
               ev, quiet, written >>

(***************************************************************************)
(* detect_motion: the per-frame verdict.                                   *)
(***************************************************************************)
RECURSIVE SumArea(_)
SumArea(cs) == IF cs = <<>> THEN 0 ELSE Head(cs).area + SumArea(Tail(cs))

\* the contours that survive the vertex-count and minimum-area tests
KeptContour(c) == c.pts >= 3 /\ c.area > min_contour_area

BoundingRect(c) == << 0, 0, c.w, c.h >>

NoReading == [detected |-> FALSE, boxes |-> <<>>, area |-> 0]

detect_motion(frame) ==
    IF ~frame.ok
    THEN NoReading
    ELSE LET kept == SelectSeq(frame.contours, KeptContour)
         IN  [detected |-> kept # <<>>,
              boxes    |-> [i \in DOMAIN kept |-> BoundingRect(kept[i])],
              area     |-> SumArea(kept)]

(***************************************************************************)
(* The warm-up gate of run, evaluated after frame_count was incremented.   *)
(***************************************************************************)
\* variant: the gate opens as soon as either test clears ("and" for "or")
GateClosedBoth(count, elapsed) ==
    count <= warmup_frames /\ elapsed < min_startup_delay

GateClosed(count, elapsed) ==
    count <= warmup_frames \/ elapsed < min_startup_delay

(***************************************************************************)
(* The episode tracker's test of a reading.                                *)
(***************************************************************************)
\* variant: the tracker buffers every frame, whatever its reading
IsMotionFrameUnchecked(r) == TRUE

IsMotionFrame(r) == r.detected /\ r.boxes # <<>>

MotionEntry(id, t, r) ==
    [frame |-> id, timestamp |-> t, motion_area |-> r.area, motion_boxes |-> r.boxes]

\* variant: the buffer holds the latest frame only
BufferKeepsLatest(active, seq, entry) == << entry >>

\* variant: a frame that opens an episode clears the buffer after the append
BufferClearedLate(active, seq, entry) ==
    IF active THEN Append(seq, entry) ELSE <<>>

\* a frame that opens an episode clears the buffer first; the entry is appended
BufferAfterMotion(active, seq, entry) ==
    Append(IF active THEN seq ELSE <<>>, entry)

(***************************************************************************)
(* process_motion_sequence: the selection of the frame to save.            *)
(***************************************************************************)
HasBoxes(x) == x.motion_boxes # <<>>

\* variant: a box of exactly min_large_box_area counts as large (">=" for ">")
HasLargeBoxInclusive(x) ==
    \E i \in DOMAIN x.motion_boxes :
        x.motion_boxes[i][3] * x.motion_boxes[i][4] >= min_large_box_area

HasLargeBox(x) ==
    \E i \in DOMAIN x.motion_boxes :
        x.motion_boxes[i][3] * x.motion_boxes[i][4] > min_large_box_area

\* variant: the large-box filter is left out
ValidFramesNoVeto(seq) == SelectSeq(seq, HasBoxes)

ValidFrames(seq) == SelectSeq(SelectSeq(seq, HasBoxes), HasLargeBox)

\* variant: the first qualifying entry, whatever its area
FirstOfValid(valid) == valid[1]

\* variant: the last entry of maximal area
MaxByAreaLast(valid) ==
    valid[CHOOSE i \in DOMAIN valid :
            /\ \A j \in DOMAIN valid : valid[j].motion_area <= valid[i].motion_area
            /\ \A j \in (i + 1)..Len(valid) : valid[j].motion_area < valid[i].motion_area]

\* Python's max(valid, key=motion_area): the first entry of maximal area
MaxByArea(valid) ==
    valid[CHOOSE i \in DOMAIN valid :
            /\ \A j \in DOMAIN valid : valid[j].motion_area <= valid[i].motion_area
            /\ \A j \in 1..(i - 1) : valid[j].motion_area < valid[i].motion_area]

\* <<>> when the episode yields nothing, else the one-element list <<best>>
SelectBest(seq) ==
    IF ValidFrames(seq) = <<>> THEN <<>> ELSE << MaxByArea(ValidFrames(seq)) >>

(***************************************************************************)
(* save_motion_image on a valid frame: "ok" writes the file and returns    *)
(* its path; "raised" is an exception (caught, None returned);             *)
(* "unwritten" is cv2.imwrite returning False without raising: the return  *)
(* value is ignored, so the path is returned although no file exists.      *)
(***************************************************************************)
SaveOutcomes == {"ok", "raised", "unwritten"}

PathReturned(outcome) == outcome \in {"ok", "unwritten"}

NewWorker == [pc |-> "waiting", calls |-> 0, result |-> "none"]

\* send_motion_alert: the guard that returns without starting a thread
AlertStartsWorker(enabled, hasPath) == enabled /\ hasPath

\* variant: the send runs in the frame loop itself, under the lock
AlertWaitsForLock(lock) == lock = 0

\* Thread(...).start() returns at once, whoever holds email_lock
AlertCanProceed(lock) == TRUE

\* regions: the number of boxes detect_motion reported, -1 when it was not run;
\* detect: "none" when it was not run, "raised" when its except branch ran;
\* display: how the display block ended, "none" when it showed the frame or
\* did not run
NoEv == [op |-> "none", regions |-> -1, detect |-> "none", seq |-> <<>>,
         chosen |-> <<>>, save |-> "none", path |-> 0, alert |-> FALSE,
         display |-> "none"]

Detected(frame) == IF frame.ok THEN "ok" ELSE "raised"

Init ==
    /\ pc = "constructed"
    /\ is_running = FALSE
    /\ video_capture = "none"
    /\ email_enabled \in BOOLEAN
    /\ show_video \in BOOLEAN
    /\ now = 0
    /\ frame_count = 0
    /\ start_time = 0
    /\ initialized = FALSE
    /\ bg_frames = 0
    /\ motion_active = FALSE
    /\ motion_sequence = <<>>
    /\ motion_start_time = 0
    /\ last_motion_time = 0
    /\ n_paths = 0
    /\ files = {}
    /\ email_lock = 0
    /\ workers = <<>>
    /\ ev = NoEv
    /\ quiet = TRUE
    /\ written = {}

(***************************************************************************)
(* The clock.                                                              *)
(***************************************************************************)
Tick ==
    /\ pc = "running"
    /\ now < MaxTime
    /\ now' = now + 1
    /\ UNCHANGED << mainVars, files, email_lock, workers >>

(***************************************************************************)
(* run, up to the loop.                                                    *)
(***************************************************************************)
RunCameraFails ==
    /\ pc = "constructed"
    /\ pc' = "exited"
    /\ ev' = [NoEv EXCEPT !.op = "no_camera"]
    /\ UNCHANGED << is_running, video_capture, email_enabled, show_video, now,
                    frame_count, start_time, initialized, bg_frames,
                    motion_active, motion_sequence, motion_start_time,
                    last_motion_time, n_paths, files, email_lock, workers, quiet, written >>

RunStart ==
    /\ pc = "constructed"
    /\ pc' = "running"
    /\ video_capture' = "open"
    /\ is_running' = TRUE
    /\ frame_count' = 0
    /\ start_time' = now
    /\ initialized' = FALSE
    /\ ev' = [NoEv EXCEPT !.op = "started"]
    /\ UNCHANGED << email_enabled, show_video, now, bg_frames, motion_active,
                    motion_sequence, motion_start_time, last_motion_time,
                    n_paths, files, email_lock, workers, quiet, written >>

\* while self.is_running: the loop reads another frame
CanRead == pc = "running" /\ is_running

\* the camera has frames left to deliver
FramesLeft == frame_count < MaxFrames

\* variant: the camera handle is not released
cleanupKeepsCamera ==
    /\ is_running' = FALSE
    /\ video_capture' = video_capture
    /\ pc' = "stopped"

cleanup ==
    /\ is_running' = FALSE
    /\ video_capture' = "released"
    /\ pc' = "stopped"

\* the display block: it runs only when show_video is set; "q" is the quit
\* key at waitKey, "raised" an exception of frame.copy, rectangle or imshow,
\* which run catches nowhere: finally runs cleanup and the exception leaves run
Display(key) ==
    /\ (~show_video => key = "none")
    /\ IF show_video /\ key \in {"q", "raised"}
       THEN cleanup
       ELSE UNCHANGED << pc, is_running, video_capture >>

(***************************************************************************)
(* One iteration of the loop, by the branch it takes.                      *)
(***************************************************************************)
\* variant: a failed read is counted as a frame
ReadFailedCounts ==
    /\ CanRead
    /\ FramesLeft
    /\ frame_count' = frame_count + 1
    /\ ev' = [NoEv EXCEPT !.op = "read_failed"]
    /\ UNCHANGED << pc, is_running, video_capture, email_enabled, show_video,
                    now, start_time, initialized, bg_frames,
                    motion_active, motion_sequence, motion_start_time,
                    last_motion_time, n_paths, files, email_lock, workers, quiet, written >>

\* ret is False: print, sleep(0.1), continue
ReadFailed ==
    /\ CanRead
    /\ ev' = [NoEv EXCEPT !.op = "read_failed"]
    /\ UNCHANGED << pc, is_running, video_capture, email_enabled, show_video,
                    now, frame_count, start_time, initialized, bg_frames,
                    motion_active, motion_sequence, motion_start_time,
                    last_motion_time, n_paths, files, email_lock, workers, quiet, written >>

WarmupSkip(f) ==
    /\ CanRead
    /\ frame_count' = frame_count + 1
    /\ GateClosed(frame_count + 1, now - start_time)
    /\ ev' = [NoEv EXCEPT !.op = "warmup"]
    /\ quiet' = (quiet /\ detect_motion(f).boxes = <<>>)
    /\ UNCHANGED << pc, is_running, video_capture, email_enabled, show_video,
                    now, start_time, initialized, bg_frames, motion_active,
                    motion_sequence, motion_start_time, last_motion_time,
                    n_paths, files, email_lock, workers, written >>

\* variant: the priming iteration lacks its continue and runs the tracker
PrimeBackgroundTracks(f) ==
    LET r == detect_motion(f) IN
    /\ CanRead
    /\ frame_count' = frame_count + 1
    /\ ~GateClosed(frame_count + 1, now - start_time)
    /\ ~initialized
    /\ bg_frames' = bg_frames + 2
    /\ initialized' = TRUE
    /\ motion_active' = IsMotionFrame(r)
    /\ motion_start_time' = IF IsMotionFrame(r) THEN now ELSE motion_start_time
    /\ motion_sequence' = IF IsMotionFrame(r)
                          THEN << MotionEntry(frame_count + 1, now, r) >>
                          ELSE <<>>
    /\ ev' = [NoEv EXCEPT !.op = "primed", !.regions = Len(r.boxes),
                          !.detect = Detected(f)]
    /\ quiet' = (quiet /\ r.boxes = <<>>)
    /\ UNCHANGED << pc, is_running, video_capture, email_enabled, show_video,
                    now, start_time, last_motion_time, n_paths, files,
                    email_lock, workers, written >>

PrimeBackground(f) ==
    /\ CanRead
    /\ frame_count' = frame_count + 1
    /\ ~GateClosed(frame_count + 1, now - start_time)
    /\ ~initialized
    /\ bg_frames' = bg_frames + 1
    /\ initialized' = TRUE
    /\ ev' = [NoEv EXCEPT !.op = "primed", !.regions = Len(detect_motion(f).boxes),
                          !.detect = Detected(f)]
    /\ quiet' = (quiet /\ detect_motion(f).boxes = <<>>)
    /\ UNCHANGED << pc, is_running, video_capture, email_enabled, show_video,
                    now, start_time, motion_active, motion_sequence,
                    motion_start_time, last_motion_time, n_paths, files,
                    email_lock, workers, written >>

MotionFrame(f, key) ==
    LET r == detect_motion(f) IN
    /\ CanRead
    /\ frame_count' = frame_count + 1
    /\ ~GateClosed(frame_count + 1, now - start_time)
    /\ initialized
    /\ bg_frames' = bg_frames + 1
    /\ IsMotionFrame(r)
    /\ motion_active' = TRUE
    /\ motion_start_time' = IF motion_active THEN motion_start_time ELSE now
    /\ motion_sequence' =
           BufferAfterMotion(motion_active, motion_sequence,
                             MotionEntry(frame_count + 1, now, r))
    /\ ev' = [NoEv EXCEPT !.op = "buffered", !.regions = Len(r.boxes),
                          !.detect = Detected(f), !.display = key]
    /\ quiet' = (quiet /\ r.boxes = <<>>)
    /\ Display(key)
    /\ UNCHANGED << email_enabled, show_video, now, start_time, initialized,
                    last_motion_time, n_paths, files, email_lock, workers,
                    written >>

NoMotionFrame(f, outcome, key) ==
    LET r       == detect_motion(f)
        called  == motion_active /\ motion_sequence # <<>>
        chosen  == IF called THEN SelectBest(motion_sequence) ELSE <<>>
        saving  == chosen # <<>>
        hasPath == saving /\ PathReturned(outcome)
        path    == n_paths + 1
        alert   == hasPath /\ email_enabled
    IN
    /\ CanRead
    /\ frame_count' = frame_count + 1
    /\ ~GateClosed(frame_count + 1, now - start_time)
    /\ initialized
    /\ bg_frames' = bg_frames + 1
    /\ ~IsMotionFrame(r)
    /\ IF saving THEN outcome \in SaveOutcomes ELSE outcome = "none"
    /\ n_paths' = IF hasPath THEN path ELSE n_paths
    /\ files' = IF saving /\ outcome = "ok" THEN files \cup {path} ELSE files
    /\ written' = IF saving /\ outcome = "ok" THEN written \cup {path} ELSE written
    /\ last_motion_time' = IF hasPath THEN now ELSE last_motion_time
    /\ (alert => AlertCanProceed(email_lock))
    /\ workers' = IF alert /\ AlertStartsWorker(email_enabled, hasPath)
                  THEN workers @@ (path :> NewWorker)
                  ELSE workers
    /\ motion_active' = FALSE
    /\ motion_sequence' = <<>>
    /\ ev' = [op     |-> IF called THEN "closed" ELSE "idle",
              regions |-> Len(r.boxes),
              detect |-> Detected(f),
              seq    |-> IF called THEN motion_sequence ELSE <<>>,
              chosen |-> chosen,
              save   |-> outcome,
              path   |-> IF hasPath THEN path ELSE 0,
              alert  |-> alert,
              display |-> key]
    /\ quiet' = (quiet /\ r.boxes = <<>>)
    /\ Display(key)
    /\ UNCHANGED << email_enabled, show_video, now, start_time, initialized,
                    motion_start_time, email_lock >>

\* KeyboardInterrupt between two iterations: except, then finally: cleanup()
Interrupt ==
    /\ pc = "running"
    /\ cleanup
    /\ ev' = [NoEv EXCEPT !.op = "interrupt"]
    /\ UNCHANGED << email_enabled, show_video, now, frame_count, start_time,
                    initialized, bg_frames, motion_active, motion_sequence,
                    motion_start_time, last_motion_time, n_paths, files,
                    email_lock, workers, quiet, written >>

\* run has returned and the script ends: the interpreter exits without
\* joining the daemon threads, which stop wherever they are
ProcessExit ==
    /\ pc = "stopped"
    /\ pc' = "exited"
    /\ workers' = [p \in DOMAIN workers |->
                     IF workers[p].pc = "done"
                     THEN workers[p]
                     ELSE [workers[p] EXCEPT !.pc = "killed"]]
    /\ ev' = [NoEv EXCEPT !.op = "exit"]
    /\ UNCHANGED << is_running, video_capture, email_enabled, show_video, now,
                    frame_count, start_time, initialized, bg_frames,
                    motion_active, motion_sequence, motion_start_time,
                    last_motion_time, n_paths, files, email_lock, quiet, written >>

(***************************************************************************)
(* email_worker(image_path), one thread per dispatched path.               *)
(***************************************************************************)
\* variant: the worker does not wait for the lock
LockAvailableAlways(lock) == TRUE

\* with self.email_lock: blocks until the lock is free
LockAvailable(lock) == lock = 0

\* variant: the worker goes straight to the removal
StageSkipsNotifier == "removing"

\* inside the lock the thread first calls the notifier
StageAfterAcquire == "sending"

WorkerAcquire(p) ==
    /\ p \in DOMAIN workers
    /\ workers[p].pc = "waiting"
    /\ LockAvailable(email_lock)
    /\ email_lock' = p
    /\ workers' = [workers EXCEPT ![p].pc = StageAfterAcquire]
    /\ UNCHANGED << mainVars, now, files >>

\* variant: a failed notifier call is made again
StageRetriesOnFailure(outcome) == IF outcome = "failed" THEN "sending" ELSE "removing"

\* after the notifier call, returned or raised, comes the finally block
StageAfterSend(outcome) == "removing"

\* the notifier call returns ("sent") or raises ("failed"); both are logged
\* and control reaches the finally block
WorkerSend(p, outcome) ==
    /\ p \in DOMAIN workers
    /\ workers[p].pc = "sending"
    /\ outcome \in {"sent", "failed"}
    /\ workers' = [workers EXCEPT ![p].pc = StageAfterSend(outcome),
                                  ![p].calls = @ + 1,
                                  ![p].result = outcome]
    /\ UNCHANGED << mainVars, now, files, email_lock >>

\* variant: the removal sits in the try block, after the notifier call
FilesAfterWorkerOnSuccess(fs, p, result) == IF result = "sent" THEN fs \ {p} ELSE fs

\* finally: os.remove(image_path), whatever the notifier call's result; a
\* missing file raises, which is caught and logged
FilesAfterWorker(fs, p, result) == fs \ {p}

WorkerRemove(p) ==
    /\ p \in DOMAIN workers
    /\ workers[p].pc = "removing"
    /\ files' = FilesAfterWorker(files, p, workers[p].result)
    /\ workers' = [workers EXCEPT ![p].pc = "releasing"]
    /\ UNCHANGED << mainVars, now, email_lock >>

\* leaving the with block releases the lock; the thread ends
WorkerRelease(p) ==
    /\ p \in DOMAIN workers
    /\ workers[p].pc = "releasing"
    /\ email_lock' = 0
    /\ workers' = [workers EXCEPT ![p].pc = "done"]
    /\ UNCHANGED << mainVars, now, files >>

\* an episode takes two frames at least, so these are the paths there can be
Paths == 1..(ExtraFrames \div 2)

WorkerStep(p) ==
    \/ WorkerAcquire(p)
    \/ \E o \in {"sent", "failed"} : WorkerSend(p, o)
    \/ WorkerRemove(p)
    \/ WorkerRelease(p)

Keys == {"none", "q"}

\* how the display block can end on a frame: a frame the cv2 calls of
\* detect_motion raised on may make the cv2 calls of the display block raise
DisplayResults(frame) == IF frame.ok THEN Keys ELSE Keys \cup {"raised"}

Next ==
    \/ Tick
    \/ RunCameraFails
    \/ RunStart
    \/ ReadFailed
    \/ FramesLeft /\ \E f \in Frames : WarmupSkip(f)
    \/ FramesLeft /\ \E f \in Frames : PrimeBackground(f)
    \/ FramesLeft /\ \E f \in Frames, key \in Keys : MotionFrame(f, key)
    \/ FramesLeft /\ \E f \in Frames, o \in SaveOutcomes \cup {"none"} :
                          \E key \in DisplayResults(f) : NoMotionFrame(f, o, key)
    \/ Interrupt
    \/ ProcessExit
    \/ \E p \in Paths : WorkerStep(p)

Spec == Init /\ [][Next]_vars

\* the threads of a running process are scheduled
FairSpec == Spec /\ \A p \in Paths : WF_vars(WorkerStep(p))

(***************************************************************************)
(* One run of the program on a scripted camera: any frames while the gate  *)
(* is closed and for priming, then the frames of ScenarioScript in order,  *)
(* every save succeeding, no key pressed, email enabled.  The reading of   *)
(* each scripted frame is what cv2 is taken to report for it.              *)
(***************************************************************************)
ScenarioRegion(a) == Contour(4, a, 100, 100)

ScenarioScript ==
    << GoodFrame(<<>>),
       GoodFrame(<<>>),
       GoodFrame(<< ScenarioRegion(10000) >>),
       GoodFrame(<< ScenarioRegion(12000) >>),
       GoodFrame(<< ScenarioRegion(8000) >>),
       GoodFrame(<<>>) >>

\* bg_frames counts the priming frame and the frames processed after it
ScriptLeft == initialized /\ bg_frames \in 1..Len(ScenarioScript)

ScenarioInit == Init /\ email_enabled

ScenarioNext ==
    \/ Tick
    \/ RunStart
    \/ FramesLeft /\ \E f \in Frames : WarmupSkip(f)
    \/ \E f \in Frames : PrimeBackground(f)
    \/ ScriptLeft /\ MotionFrame(ScenarioScript[bg_frames], "none")
    \/ ScriptLeft /\ \E o \in {"ok", "none"} :
                        NoMotionFrame(ScenarioScript[bg_frames], o, "none")
    \/ \E p \in Paths : WorkerStep(p)

ScenarioSpec == ScenarioInit /\ [][ScenarioNext]_vars /\ WF_vars(ScenarioNext)

(***************************************************************************)
(* Well-formedness of the state.                                           *)
(***************************************************************************)
WorkerStages == {"waiting", "sending", "removing", "releasing", "done", "killed"}

TypeOK ==
    /\ pc \in {"constructed", "running", "stopped", "exited"}
    /\ is_running \in BOOLEAN
    /\ video_capture \in {"none", "open", "released"}
    /\ now \in 0..MaxTime
    /\ frame_count \in 0..MaxFrames
    /\ bg_frames \in 0..ExtraFrames
    /\ motion_active \in BOOLEAN
    /\ Len(motion_sequence) <= ExtraFrames
    /\ n_paths \in 0..(ExtraFrames \div 2)
    /\ files \subseteq 1..n_paths
    /\ written \subseteq 1..n_paths
    /\ DOMAIN workers \subseteq 1..n_paths
    /\ email_lock \in {0} \cup DOMAIN workers
    /\ \A p \in DOMAIN workers : workers[p].pc \in WorkerStages

(***************************************************************************)
(* The claims.  BoxOver5000 states the large-box test in the claims' own   *)
(* words.                                                                  *)
(***************************************************************************)
BoxOver5000(x) ==
    \E i \in DOMAIN x.motion_boxes :
        x.motion_boxes[i][3] * x.motion_boxes[i][4] > 5000

InBuffer(x, seq) == \E i \in DOMAIN seq : seq[i] = x

\* C1: when an episode closes, the frame handed to save_motion_image is a
\* buffered frame with a box of w*h > 5000, and its motion_area is the
\* maximum over the buffered frames that have such a box; a buffered frame of
\* larger motion_area without such a box is never the one chosen.
C1_SavedFrameIsLargestQualifying ==
    (ev.op = "closed" /\ ev.chosen # <<>>) =>
        /\ ev.save # "none"
        /\ InBuffer(ev.chosen[1], ev.seq)
        /\ BoxOver5000(ev.chosen[1])
        /\ \A i \in DOMAIN ev.seq :
               BoxOver5000(ev.seq[i]) =>
                   ev.seq[i].motion_area <= ev.chosen[1].motion_area

\* an episode closed whose chosen frame is not the one of largest area: a
\* frame of larger area was passed over for want of a large box
C1_Witness ==
    /\ ev.op = "closed"
    /\ ev.chosen # <<>>
    /\ ev.save = "ok"
    /\ \E i \in DOMAIN ev.seq :
           /\ ev.seq[i].motion_area > ev.chosen[1].motion_area
           /\ ~BoxOver5000(ev.seq[i])

\* C2: closing an episode none of whose buffered frames has a box with
\* w*h > 5000 calls neither save_motion_image nor send_motion_alert, leaves
\* last_motion_time unchanged, and leaves the tracker idle with an empty
\* buffer.
C2_SmallEpisodeYieldsNothing ==
    [][ ( /\ frame_count' = frame_count + 1
          /\ ev'.op = "closed"
          /\ motion_sequence # <<>>
          /\ \A i \in DOMAIN motion_sequence : ~BoxOver5000(motion_sequence[i]) )
        => ( /\ ev'.chosen = <<>>
             /\ ev'.save = "none"
             /\ ~ev'.alert
             /\ n_paths' = n_paths
             /\ files' = files
             /\ workers' = workers
             /\ last_motion_time' = last_motion_time
             /\ ~motion_active'
             /\ motion_sequence' = <<>> ) ]_vars

\* an episode without any large box has just closed, after an earlier episode
\* had set last_motion_time
C2_Witness ==
    /\ ev.op = "closed"
    /\ ev.seq # <<>>
    /\ \A i \in DOMAIN ev.seq : ~BoxOver5000(ev.seq[i])
    /\ ev.save = "none"
    /\ n_paths = 1
    /\ last_motion_time > 0
    /\ ~motion_active

\* C3: after the loop has processed a post-warm-up frame whose reading has no
\* region, motion_active is false and motion_sequence is empty, whatever the
\* state before and whatever the outcome of the finalization.
C3_MotionFreeFrameEndsEpisode ==
    (ev.op \in {"buffered", "closed", "idle"} /\ ev.regions = 0) =>
        (~motion_active /\ motion_sequence = <<>>)

\* an episode closed on a motion-free frame and saving its frame failed
C3_Witness ==
    /\ ev.op = "closed"
    /\ ev.regions = 0
    /\ ev.chosen # <<>>
    /\ ev.save = "raised"
    /\ ~motion_active
    /\ motion_sequence = <<>>

\* C4: every entry of motion_sequence has a non-empty motion_boxes list.
C4_BufferedFramesHaveBoxes ==
    \A i \in DOMAIN motion_sequence : motion_sequence[i].motion_boxes # <<>>

\* two frames are buffered and the tracker has seen a frame before them,
\* which (not being in the buffer) had no region
C4_Witness ==
    /\ motion_active
    /\ Len(motion_sequence) = 2
    /\ bg_frames = 4

\* C5: as long as every frame read has a zero-region reading, motion_active
\* is false, process_motion_sequence is not entered with a non-empty buffer,
\* and no image is persisted or dispatched.
C5_QuietInputNeverActivates ==
    quiet =>
        /\ ~motion_active
        /\ motion_sequence = <<>>
        /\ ev.op # "closed"
        /\ ev.save = "none"
        /\ n_paths = 0
        /\ files = {}
        /\ workers = <<>>

\* the tracker has run on three frames, all without regions
C5_Witness ==
    /\ quiet
    /\ ev.op = "idle"
    /\ bg_frames = 4

\* C6: no frame reaches detect_motion or the episode tracker while
\* frame_count <= warmup_frames or the time elapsed since the start is below
\* min_startup_delay: detection has only ever run with both tests cleared,
\* and an iteration on which the gate is closed leaves the background model,
\* motion_active, motion_sequence and initialized as they were.
C6_NoDetectionWhileGateClosed ==
    /\ [](bg_frames > 0 =>
            (frame_count > warmup_frames /\ now - start_time >= min_startup_delay))
    /\ [][ ( /\ frame_count' = frame_count + 1
             /\ (frame_count' <= warmup_frames \/ now - start_time < min_startup_delay) )
           => ( /\ bg_frames' = bg_frames
                /\ motion_active' = motion_active
                /\ motion_sequence' = motion_sequence
                /\ initialized' = initialized ) ]_vars

\* a frame past the warm-up count was skipped because the delay had not elapsed
C6_Witness ==
    /\ ev.op = "warmup"
    /\ frame_count > warmup_frames
    /\ now - start_time < min_startup_delay
    /\ bg_frames = 0
    /\ ~initialized

\* C7: the first frame read once the gate has cleared goes to the background
\* model only: it sets initialized, which is never reset, and whatever its
\* regions it opens no episode, is not buffered and triggers no finalization;
\* the tracker has not run before it.
C7_FirstFrameOnlyPrimes ==
    /\ [](~initialized =>
            (bg_frames = 0 /\ ~motion_active /\ motion_sequence = <<>> /\ n_paths = 0))
    /\ [][initialized => initialized']_vars
    /\ [][ ( /\ frame_count' = frame_count + 1
             /\ frame_count' > warmup_frames
             /\ now - start_time >= min_startup_delay
             /\ ~initialized )
           => ( /\ initialized'
                /\ ev'.op = "primed"
                /\ bg_frames' = bg_frames + 1
                /\ ~motion_active'
                /\ motion_sequence' = <<>>
                /\ n_paths' = n_paths
                /\ files' = files
                /\ workers' = workers ) ]_vars

\* the priming frame showed regions and the tracker is still idle
C7_Witness ==
    /\ ev.op = "primed"
    /\ ev.regions > 0
    /\ initialized
    /\ bg_frames = 1
    /\ ~motion_active
    /\ motion_sequence = <<>>

InsideLock == {p \in DOMAIN workers : workers[p].pc \in {"sending", "removing", "releasing"}}

\* C8: at most one worker is between acquiring email_lock and releasing it,
\* and it is the one holding the lock: the send-then-delete sections of two
\* episodes never overlap.
C8_OneWorkerInsideLock ==
    /\ Cardinality(InsideLock) <= 1
    /\ \A p \in InsideLock : email_lock = p

\* one worker is about to delete its file while another waits for the lock
C8_Witness ==
    \E p, q \in DOMAIN workers :
        /\ p # q
        /\ workers[p].pc = "removing"
        /\ workers[q].pc = "waiting"

\* C9, as stated: every path handed to send_motion_alert with the email
\* service enabled is eventually not on disk any more.
C9_EveryDispatchedFileDeleted ==
    \A p \in Paths : [](p \in DOMAIN workers => <>(p \notin files))

\* C9, amended: every path handed to send_motion_alert with the email service
\* enabled is eventually not on disk any more, whether the notifier returned
\* or raised, unless the process exits first.
C9_DispatchedFileDeletedUnlessExit ==
    \A p \in Paths : [](p \in DOMAIN workers => <>(p \notin files \/ pc = "exited"))

\* a worker whose notifier call raised has finished and its file, which had
\* been written, is gone
C9_Witness ==
    \E p \in DOMAIN workers :
        /\ workers[p].pc = "done"
        /\ workers[p].result = "failed"
        /\ p \in written
        /\ p \notin files

\* C10: an image file that was written and is gone was handed to a worker
\* that has finished its notifier call on that path; a file no send was
\* attempted for is still there.
C10_DeletedOnlyAfterSendAttempt ==
    \A p \in written \ files :
        /\ p \in DOMAIN workers
        /\ workers[p].calls >= 1
        /\ workers[p].result # "none"

\* one file is gone after its send attempt while another, whose worker has
\* not called the notifier yet, is still on disk
C10_Witness ==
    \E p, q \in written :
        /\ p \notin files
        /\ workers[p].calls = 1
        /\ q \in files
        /\ q \in DOMAIN workers
        /\ workers[q].calls = 0

\* one iteration of the loop on frame f whose save, if any, succeeds and
\* during which no key is pressed
LoopStepOn(f) ==
    \/ WarmupSkip(f)
    \/ PrimeBackground(f)
    \/ MotionFrame(f, "none")
    \/ NoMotionFrame(f, "ok", "none")
    \/ NoMotionFrame(f, "none", "none")

\* C11: send_motion_alert never blocks the frame loop and passes no notifier
\* error into it: whoever holds email_lock, the running loop can process
\* whatever frame comes next (a frame that closes an episode and dispatches
\* its image included), and a notifier call that raises changes none of
\* motion_active, motion_sequence, frame_count and is_running.
C11_AlertNeverBlocksLoop ==
    /\ []((pc = "running" /\ is_running) => \A f \in Frames : ENABLED LoopStepOn(f))
    /\ [][ (\E p \in DOMAIN workers :
               workers[p].result = "none" /\ workers'[p].result = "failed")
           => UNCHANGED << motion_active, motion_sequence, frame_count,
                           is_running, pc >> ]_vars

\* a worker holds email_lock after a notifier call that raised, while the
\* loop is in an episode whose close will dispatch another image
C11_Witness ==
    /\ pc = "running"
    /\ is_running
    /\ motion_active
    /\ SelectBest(motion_sequence) # <<>>
    /\ \E p \in DOMAIN workers :
           /\ email_lock = p
           /\ workers[p].pc = "removing"
           /\ workers[p].result = "failed"

\* C12: alerts are throttled by motion_cooldown: an episode that closes with
\* a persisted frame less than motion_cooldown seconds after the
\* last_motion_time an earlier persist recorded dispatches no alert.
C12_CloseInsideCooldownSendsNoAlert ==
    [][ ( /\ ev'.op = "closed"
          /\ ev'.path # 0
          /\ n_paths >= 1
          /\ now - last_motion_time < motion_cooldown )
        => ~ev'.alert ]_vars

\* the scripted frames processed so far
ScriptDone == bg_frames - 1

\* the episode of the scripted run opens at frame openAt and closes at
\* frame closeAt, saving the frame of area 12000 and starting one worker
ScenarioOutcome(openAt, closeAt) ==
    /\ n_paths <= 1
    /\ Cardinality(DOMAIN workers) <= 1
    /\ \A p \in DOMAIN workers : workers[p].calls <= 1
    /\ (initialized /\ ScriptDone < openAt) => (~motion_active /\ n_paths = 0)
    /\ (initialized /\ ScriptDone = openAt)
           => (ev.op = "buffered" /\ motion_active /\ Len(motion_sequence) = 1)
    /\ (initialized /\ ScriptDone \in openAt..(closeAt - 1))
           => (motion_active /\ n_paths = 0 /\ workers = << >>)
    /\ (initialized /\ ScriptDone = closeAt)
           => /\ ev.op = "closed"
              /\ ~motion_active
              /\ Len(ev.seq) = closeAt - openAt
              /\ ev.chosen # <<>>
              /\ ev.chosen[1].motion_area = 12000
              /\ ev.save = "ok"
              /\ ev.path = 1
              /\ 1 \in written
              /\ ev.alert
              /\ DOMAIN workers = {1}

\* the one worker of the scripted run has made its one notifier call
ScenarioNotified ==
    /\ ScriptDone = Len(ScenarioScript)
    /\ DOMAIN workers = {1}
    /\ workers[1].pc = "done"
    /\ workers[1].calls = 1

\* C13 as stated: on 2 quiet frames, 3 frames with one 100x100 box and areas
\* 10000 / 12000 / 8000, and 1 quiet frame, the episode opens at frame 3,
\* closes at frame 7, the frame of area 12000 is saved and one notification
\* is dispatched.
C13_EpisodeClosesAtFrame7 ==
    []ScenarioOutcome(3, 7) /\ <>ScenarioNotified

\* C13: the same with the close at frame 6, the quiet frame that follows
\* the three motion frames.
C13_EpisodeClosesAtFrame6 ==
    []ScenarioOutcome(3, 6) /\ <>ScenarioNotified

C13_Witness ==
    /\ ScenarioNotified
    /\ ev.op = "closed"
    /\ Len(ev.seq) = 3
    /\ ev.chosen[1].motion_area = 12000
    /\ ev.seq[1].motion_area = 10000
    /\ 1 \in written
    /\ 1 \notin files

\* C14: a failed frame read does not advance frame_count, runs no detection,
\* leaves motion_active and motion_sequence as they are (an active episode
\* survives it) and does not stop the loop, which goes on to the next read.
C14_FailedReadChangesNothing ==
    /\ [][ ev'.op = "read_failed"
           => /\ UNCHANGED << frame_count, bg_frames, initialized, motion_active,
                              motion_sequence, motion_start_time, n_paths,
                              is_running, pc >>
              /\ ev'.regions = -1
              /\ ev'.detect = "none" ]_vars
    /\ [](ev.op = "read_failed" => (CanRead /\ ENABLED ReadFailed))

\* a read failed in the middle of an episode
C14_Witness ==
    /\ ev.op = "read_failed"
    /\ motion_active
    /\ Len(motion_sequence) >= 2
    /\ frame_count > warmup_frames

\* C15: when persisting the selected frame fails, by an exception or by the
\* image write failing, save_motion_image returns no path, so no alert is
\* dispatched and last_motion_time keeps its value, while the episode is
\* cleared all the same.
C15_FailedSaveReportsFailure ==
    [][ (ev'.op = "closed" /\ ev'.save \in {"raised", "unwritten"})
        => /\ ev'.path = 0
           /\ ~ev'.alert
           /\ ev'.path \notin DOMAIN workers'
           /\ last_motion_time' = last_motion_time
           /\ ~motion_active'
           /\ motion_sequence' = <<>> ]_vars

\* C16: a failure inside detect_motion yields the empty verdict; the loop
\* treats the frame as a no-region frame, closing an active episode, and
\* keeps running; the loop ends only by a camera that does not open, an
\* interrupt or the quit key.
C16_DetectFailureNeverEndsLoop ==
    /\ []( (ev.detect = "raised" /\ ev.op \in {"buffered", "closed", "idle"})
           => /\ ev.regions = 0
              /\ ev.op \in {"closed", "idle"}
              /\ ~motion_active
              /\ motion_sequence = <<>>
              /\ (pc = "running" \/ ev.display = "q") )
    /\ [][ (pc = "running" /\ pc' # "running")
           => (ev'.op = "interrupt" \/ ev'.display = "q") ]_vars
    /\ [][ (pc = "constructed" /\ pc' = "exited") => ev'.op = "no_camera" ]_vars

\* C17: when several qualifying buffered frames share the maximum
\* motion_area, the frame chosen is the one buffered first: every
\* qualifying entry of the chosen frame's area arrived no earlier than it.
C17_TieGoesToFirstBuffered ==
    (ev.op = "closed" /\ ev.chosen # <<>>)
        => /\ InBuffer(ev.chosen[1], ev.seq)
           /\ \A i \in DOMAIN ev.seq :
                  ( /\ BoxOver5000(ev.seq[i])
                    /\ ev.seq[i].motion_area = ev.chosen[1].motion_area )
                  => ev.seq[i].frame >= ev.chosen[1].frame

\* an episode closed with two qualifying frames of the same, maximal area
C17_Witness ==
    /\ ev.op = "closed"
    /\ ev.chosen # <<>>
    /\ \E i \in DOMAIN ev.seq :
           /\ BoxOver5000(ev.seq[i])
           /\ ev.seq[i].motion_area = ev.chosen[1].motion_area
           /\ ev.seq[i].frame > ev.chosen[1].frame
    /\ \A i \in DOMAIN ev.seq :
           BoxOver5000(ev.seq[i]) => ev.seq[i].motion_area <= ev.chosen[1].motion_area

\* what C19 says of every step and every worker: a step persists at most
\* one image and starts at most one worker, and no worker calls the
\* notifier a second time, whatever the first call's result
AtMostOnce ==
    /\ []( \A p \in DOMAIN workers :
               /\ workers[p].calls <= 1
               /\ workers[p].pc \in {"waiting", "sending"} => workers[p].calls = 0
               /\ workers[p].pc \in {"removing", "releasing", "done"}
                      => workers[p].calls = 1
               /\ workers[p].result # "none" => workers[p].calls = 1 )
    /\ [][ /\ Cardinality(written' \ written) <= 1
           /\ Cardinality(DOMAIN workers' \ DOMAIN workers) <= 1
           /\ n_paths' <= n_paths + 1
           /\ DOMAIN workers \subseteq DOMAIN workers'
           /\ (DOMAIN workers' # DOMAIN workers => ev'.op = "closed") ]_vars

\* C19 as stated: delivery is at-most-once without retry, and each
\* dispatched path gets exactly one notifier call, failed or not.
C19_ExactlyOneCallPerPath ==
    /\ AtMostOnce
    /\ \A p \in Paths :
           [](p \in DOMAIN workers
                  => <>(p \in DOMAIN workers /\ workers[p].calls = 1))

\* C19: each close persists at most one image and dispatches at most one
\* alert; each dispatched path gets at most one notifier call, never a
\* second one after a failure, and exactly one unless the process exits
\* before its worker has made the call.
C19_OneCallPerPathUnlessExit ==
    /\ AtMostOnce
    /\ \A p \in Paths :
           [](p \in DOMAIN workers
                  => <>( \/ (p \in DOMAIN workers /\ workers[p].calls = 1)
                         \/ pc = "exited" ))

\* two paths were dispatched; the worker of the first made one call, which
\* failed, and ended, and the worker of the second has made its one call
C19_Witness ==
    /\ DOMAIN workers = {1, 2}
    /\ workers[1].pc = "done"
    /\ workers[1].result = "failed"
    /\ workers[1].calls = 1
    /\ workers[2].pc = "removing"
    /\ workers[2].calls = 1

C21_EveryWayOutRunsCleanup ==
    /\ [][ (pc = "running" /\ pc' # "running")
           => /\ pc' = "stopped"
              /\ ~is_running'
              /\ video_capture' = "released"
              /\ \A p \in DOMAIN workers : workers'[p] = workers[p] ]_vars
    /\ []( pc = "stopped" => (~is_running /\ video_capture = "released") )
    /\ []( (pc = "exited" /\ ev.op # "no_camera")
           => (~is_running /\ video_capture = "released") )
    /\ []( pc = "running" => ENABLED Interrupt )
    /\ []( pc = "stopped" => ENABLED ProcessExit )
    /\ []( ev.op = "no_camera"
           => /\ pc = "exited"
              /\ ~is_running
              /\ frame_count = 0
              /\ bg_frames = 0
              /\ ~initialized
              /\ workers = << >> )
    /\ [][ pc = "constructed" => pc' \in {"running", "exited"} ]_vars

\* the loop was left and the process ended while a worker had not finished
C21_Witness ==
    /\ pc = "exited"
    /\ ~is_running
    /\ video_capture = "released"
    /\ \E p \in DOMAIN workers : workers[p].pc = "killed" /\ workers[p].calls = 0

\* C22: at every frame boundary motion_active is true exactly when
\* motion_sequence is non-empty: the tracker is either idle with an empty
\* buffer or active with a non-empty one.
C22_ActiveIffBufferNonEmpty ==
    /\ motion_active <=> (motion_sequence # <<>>)
    /\ ev.op \in {"closed", "idle"} => (~motion_active /\ motion_sequence = <<>>)
    /\ ev.op = "buffered" => (motion_active /\ motion_sequence # <<>>)

\* a second episode has just opened after an earlier one was closed and saved
C22_Witness ==
    /\ motion_active
    /\ Len(motion_sequence) = 1
    /\ written # {}
    /\ ev.op = "buffered"

====
